---- MODULE Spec2Model ----
(***************************************************************************)
(* A model of trader.py: the date-range drivers process_nse_indices,       *)
(* process_nse_equities and process_nse_futures, the per-date pipelines    *)
(* _output_nse_* (read, manipulate, finalize, write) and the field         *)
(* sanitizers.                                                             *)
(*                                                                         *)
(* Texts are TLA+ strings.  A csv file is a sequence of lines, a line a    *)
(* sequence of cell texts.  A record (a Python dict) is a function from a  *)
(* set of key texts to value texts.  Dates are proleptic Gregorian         *)
(* ordinals, as datetime.date.toordinal() gives them.                      *)
(***************************************************************************)
EXTENDS Integers, Sequences, FiniteSets, TLC

VARIABLES
    category,       \* which driver runs: "Indices", "Equities" or "Futures"
    start_date,     \* the driver's start_date, as an ordinal
    end_date,       \* the driver's end_date (start_date when None was passed)
    ignore_weekend, \* the driver's ignore_weekend argument
    current_date,   \* the driver loop's current_date
    pc,             \* the position of the program
    parser_error,   \* what dateutil's parse() raises on an unparseable text
    dl,             \* the input files of current_date in download_location
    output_data,    \* the list output_data of _output_nse_*
    origin,         \* for each element of output_data: the input row it is from
    out_fs,         \* output_location: ordinal -> contents of that date's csv
    err,            \* the exception that left the driver and the pc it was
                    \* raised at, or NoError
    opened,         \* the input files of current_date that were opened
    downloaded,     \* the dates _download_nse_* was called for
    processed       \* the dates _output_nse_* returned for

vars == <<category, start_date, end_date, ignore_weekend, current_date, pc,
          parser_error, dl, output_data, origin, out_fs, err, opened,
          downloaded, processed>>

(***************************************************************************)
(* Bounds of the model.                                                    *)
(***************************************************************************)
\* How many dates the window of start_date and end_date holds.
NumDates == 4
\* The most lines of a bhavcopy file of Indices or Equities.
MaxRows == 2
\* The most lines of a bhavcopy file of Futures.
MaxFutRows == 3
\* The most lines of a delivery file.
MaxDelvRows == 2
\* The most lines of a volatility-index file.
MaxVixRows == 1
\* The most lines of any file when a range of several dates is processed.
MaxRangeRows == 1
MaxRunRows == 17

(***************************************************************************)
(* Dates.                                                                  *)
(***************************************************************************)
\* datetime.date(2014, 5, 14).toordinal(): INDIAVIX is in the bhavcopy since.
VixCutoff == 735367
\* The first date of the window: Sunday 2014-05-11.
FirstDate == VixCutoff - 3
Dates == FirstDate .. (FirstDate + NumDates - 1)

\* datetime.date.isoweekday: Monday is 1, Sunday is 7; ordinal 1 is a Monday.
isoweekday(d) == ((d - 1) % 7) + 1

(***************************************************************************)
(* Values that are not texts of a file.                                    *)
(***************************************************************************)
\* Python's None, as dict.get gives it for a key that is not there.
None == "<None>"
\* The list csv.DictReader stores under restkey for a line that is too long.
RestList == "<list>"
\* restkey and restval of the csv.DictReader in _read_input_as_list.
Skip == "Skip"

(***************************************************************************)
(* Text conversions, over the texts the model's files hold.                *)
(***************************************************************************)
\* str.strip(): the text without leading and trailing whitespace.
StripTable == [t \in {" 5.5 ", " 0 ", " - ", " FOO "} |->
                 CASE t = " 5.5 " -> "5.5"
                   [] t = " 0 "   -> "0"
                   [] t = " - "   -> "-"
                   [] t = " FOO " -> "FOO"]
strip(t) == IF t \in DOMAIN StripTable THEN StripTable[t] ELSE t

\* float(): the value of a text in hundredths; texts outside are a ValueError.
\* float() itself ignores surrounding whitespace.
FloatTable == [t \in {"0", "0.00", "1", "5.5", "5.50", "7", "7.00", "1000",
                      "1234.5", " 5.5 ", " 0 "} |->
                 CASE t = "0"      -> 0
                   [] t = "0.00"   -> 0
                   [] t = "1"      -> 100
                   [] t = "5.5"    -> 550
                   [] t = "5.50"   -> 550
                   [] t = "7"      -> 700
                   [] t = "7.00"   -> 700
                   [] t = "1000"   -> 100000
                   [] t = "1234.5" -> 123450
                   [] t = " 5.5 "  -> 550
                   [] t = " 0 "    -> 0]
IsFloat(t) == t \in DOMAIN FloatTable

Digit == <<"0", "1", "2", "3", "4", "5", "6", "7", "8", "9">>
RECURSIVE IntText(_)
\* str of a natural number.
IntText(n) == IF n < 10 THEN Digit[n + 1]
              ELSE IntText(n \div 10) \o Digit[(n % 10) + 1]

\* "{0:.2f}".format(x) for x given in hundredths.
Format2f(h) == IntText(h \div 100) \o "." \o Digit[((h % 100) \div 10) + 1]
                                        \o Digit[(h % 10) + 1]
\* "{0:.0f}".format(x * 100) for x given in hundredths.
Format0fTimes100(h) == IntText(h)

\* str.upper().replace(" ", "").
UpperTable == [t \in {"nifty 50", " FOO "} |->
                 CASE t = "nifty 50" -> "NIFTY50"
                   [] t = " FOO "    -> "FOO"]
UpperNoSpace(t) == IF t \in DOMAIN UpperTable THEN UpperTable[t] ELSE t

\* dateutil.parser.parse(t, dayfirst=True).date().isoformat() for the texts
\* that are dates; every other text is unparseable.
DateTable == [t \in {"13-05-2014", "13-May-2014"} |-> "2014-05-13"]
IsDate(t) == t \in DOMAIN DateTable
\* What parse() raises on an unparseable text: dateutil 2.2 a TypeError, as
\* the comments of _manipulate_nse_indices say, later releases a ValueError.
ParserErrors == {"TypeError", "ValueError"}

(***************************************************************************)
(* Records.                                                                *)
(***************************************************************************)
\* d[key] = value
SetKey(d, key, value) ==
    [k \in (DOMAIN d) \cup {key} |-> IF k = key THEN value ELSE d[k]]
\* d.pop(key, None) for every key of keys
PopKeys(d, keys) == [k \in (DOMAIN d) \ keys |-> d[k]]
\* The set of elements of a sequence.
Range(s) == {s[i] : i \in 1 .. Len(s)}

(***************************************************************************)
(* Field names.                                                            *)
(***************************************************************************)
\* _get_nse_indices_fieldnames
indices_bhav_fieldnames ==
    <<"Symbol", "Date", "Open", "High", "Low", "Close", "Change",
      "Change_pct", "Volume", "Turnover", "PE", "PB", "Div_yield">>
indices_vix_fieldnames ==
    <<"Date", "Open", "High", "Low", "Close", "Prev_Close", "Change",
      "Change_pct">>
\* _get_nse_equities_fieldnames
equities_bhav_fieldnames ==
    <<"Symbol", "Series", "Open", "High", "Low", "Close", "LTP",
      "Prev_Close", "Volume", "Turnover", "Date", "Total_Trades", "ISIN">>
equities_delv_fieldnames ==
    <<"Type", "Sl_No", "Symbol", "Series", "Volume", "OI", "OI_%">>
\* _get_nse_futures_fieldnames
futures_bhav_fieldnames ==
    <<"Instrument", "Symbol", "Expiry_Date", "Strike_Price", "Option_Type",
      "Open", "High", "Low", "Close", "Settlement_Price", "Contracts",
      "Turnover_lakh", "OI", "OI_Change", "Date">>
\* ind_fieldnames, eq_fieldnames and fut_fieldnames are the same tuple, and
\* so are ind_header, eq_header and fut_header.
out_fieldnames ==
    <<"Symbol", "Date", "Open", "High", "Low", "Close", "Volume", "OI">>
out_header ==
    <<"Symbol", "Date", "Open", "High", "Low", "Close", "Volume", "OI">>

(***************************************************************************)
(* _read_input_as_list: csv.DictReader with restkey = restval = "Skip".    *)
(***************************************************************************)
\* One line as a dict: a missing cell is restval, the cells beyond the
\* fieldnames are a list under restkey.
ReadRow(line, input_fieldnames) ==
    LET n == Len(input_fieldnames)
        named == [k \in Range(input_fieldnames) |->
                    LET i == CHOOSE j \in 1 .. n : input_fieldnames[j] = k
                    IN  IF i <= Len(line) THEN line[i] ELSE Skip]
    IN  IF Len(line) > n THEN SetKey(named, Skip, RestList) ELSE named

\* csv.DictReader skips the lines that have no cell at all.
_read_input_as_list(input_file, input_fieldnames) ==
    LET kept == SelectSeq(input_file, LAMBDA line : Len(line) > 0)
    IN  [i \in 1 .. Len(kept) |-> ReadRow(kept[i], input_fieldnames)]

(***************************************************************************)
(* Field sanitizers.                                                       *)
(***************************************************************************)
_convert_dash_to_zero(data) ==
    [k \in DOMAIN data |-> IF data[k] = "-" THEN "0" ELSE data[k]]

_convert_blank_to_zero(data) ==
    [k \in DOMAIN data |-> IF data[k] = "" THEN "0" ELSE data[k]]

\* _sanitize_ohlc with "Low" left out of keys.
_sanitize_ohlc_without_low(input_dict) ==
    LET keys == {"Open", "High"}
    IN  IF input_dict["Close"] # "0" /\ \A x \in keys : input_dict[x] = "0"
        THEN [k \in DOMAIN input_dict |->
                IF k \in keys THEN input_dict["Close"] ELSE input_dict[k]]
        ELSE input_dict

_sanitize_ohlc(input_dict) ==
    LET keys == {"Open", "High", "Low"}
    IN  IF input_dict["Close"] # "0" /\ \A x \in keys : input_dict[x] = "0"
        THEN [k \in DOMAIN input_dict |->
                IF k \in keys THEN input_dict["Close"] ELSE input_dict[k]]
        ELSE input_dict

\* unnecessary_keys without the reader's restkey 'Skip'.
unnecessary_keys_without_skip ==
    {"Change", "Change_pct", "Turnover", "PE", "PB", "ISIN", "Div_yield",
     "Prev_Close", "Series", "LTP", "Total_Trades", "Instrument",
     "Expiry_Date", "Strike_Price", "Option_Type", "Settlement_Price",
     "Contracts", "Turnover_lakh", "OI_Change"}

unnecessary_keys ==
    {"Change", "Change_pct", "Turnover", "PE", "PB", "ISIN", "Div_yield",
     "Prev_Close", "Skip", "Series", "LTP", "Total_Trades", "Instrument",
     "Expiry_Date", "Strike_Price", "Option_Type", "Settlement_Price",
     "Contracts", "Turnover_lakh", "OI_Change"}

_pop_unnecessary_keys(data) ==
    [i \in 1 .. Len(data) |-> PopKeys(data[i], unnecessary_keys)]

strip_spaces == {"Symbol", "Open", "High", "Low", "Close", "Volume", "OI"}
format_floats == {"Open", "High", "Low", "Close"}

\* The keys of strip_spaces in the order the loop takes them.
strip_order == <<"Symbol", "Open", "High", "Low", "Close", "Volume", "OI">>

\* What element[key].strip() raises: a KeyError for a key that is not there,
\* an AttributeError for None.
StripError(element, key) ==
    IF key \notin DOMAIN element THEN "KeyError"
    ELSE IF element[key] = None THEN "AttributeError"
    ELSE "none"

\* What formatting one element raises.  The strip loop runs before the
\* float loop; float() of a text that is no number is a ValueError.
FormatError(element) ==
    IF \E i \in 1 .. Len(strip_order) :
            StripError(element, strip_order[i]) # "none"
    THEN StripError(element,
            strip_order[CHOOSE i \in 1 .. Len(strip_order) :
                /\ StripError(element, strip_order[i]) # "none"
                /\ \A j \in 1 .. (i - 1) :
                      StripError(element, strip_order[j]) = "none"])
    ELSE IF \E k \in format_floats : ~IsFloat(strip(element[k]))
         THEN "ValueError"
    ELSE "none"

\* One element after the two loops of _format_output_data.
FormatElement(element) ==
    [k \in DOMAIN element |->
        IF k \in format_floats THEN Format2f(FloatTable[strip(element[k])])
        ELSE IF k \in strip_spaces THEN strip(element[k])
        ELSE element[k]]

\* The result of a function that may raise: exc is "none" or the exception.
Ok(data, org) == [exc |-> "none", data |-> data, org |-> org]
Raised(e) == [exc |-> e, data |-> <<>>, org |-> <<>>]

\* The exception of the first element that raises, if one does.
FirstError(data) ==
    IF \E i \in 1 .. Len(data) : FormatError(data[i]) # "none"
    THEN FormatError(data[CHOOSE i \in 1 .. Len(data) :
                            /\ FormatError(data[i]) # "none"
                            /\ \A j \in 1 .. (i - 1) :
                                  FormatError(data[j]) = "none"])
    ELSE "none"

_format_output_data(data, org) ==
    IF FirstError(data) # "none" THEN Raised(FirstError(data))
    ELSE Ok([i \in 1 .. Len(data) |-> FormatElement(data[i])], org)

_finalize_output(data, org) ==
    IF Len(data) < 1 THEN Ok(data, org)
    ELSE _format_output_data(_pop_unnecessary_keys(data), org)

(***************************************************************************)
(* Category normalizers.  Each gives Ok(data, org) with the elements       *)
(* appended to output_data and, for each, the place of its input row, or   *)
(* Raised(e) when an exception leaves the function.                        *)
(***************************************************************************)
\* record = foo for the foo at row of the list read from file: the record is
\* that foo itself.
foo_itself(file, row) == [file |-> file, row |-> row, same_object |-> TRUE]

\* record = foo.copy() for the foo at row of the list read from file: the
\* record is an object of its own, and what is done to it is not done to foo.
foo_copy(file, row) == [file |-> file, row |-> row, same_object |-> FALSE]

\* An optional list: None, or a list.
NoneList == [is_none |-> TRUE, list |-> <<>>]
Some(l) == [is_none |-> FALSE, list |-> l]

\* record.get('Date')
GetDate(record) == IF "Date" \in DOMAIN record THEN record["Date"] ELSE None

\* What parse(date_str, dayfirst=True) raises: a TypeError for None in every
\* release, perr for an unparseable text.
ParseError(date_str, perr) ==
    IF date_str = None THEN "TypeError"
    ELSE IF IsDate(date_str) THEN "none"
    ELSE perr

\* IndicesRecord without the Volume of a record that has no Symbol.
IndicesRecord_without_vix_volume(foo) ==
    LET r1 == SetKey(foo, "OI", "0")
    IN  IF "Symbol" \in DOMAIN r1
        THEN LET r2 == SetKey(r1, "Symbol", UpperNoSpace(r1["Symbol"]))
             IN  IF IsFloat(r2["Turnover"])
                 THEN SetKey(r2, "Volume",
                             Format0fTimes100(FloatTable[r2["Turnover"]]))
                 ELSE r2
        ELSE SetKey(r1, "Symbol", "INDIAVIX")

\* The body of the loop of _manipulate_nse_indices up to the date, for one
\* foo of input_data.
IndicesRecord(foo) ==
    LET r1 == SetKey(foo, "OI", "0")
    IN  IF "Symbol" \in DOMAIN r1
        THEN LET r2 == SetKey(r1, "Symbol", UpperNoSpace(r1["Symbol"]))
             IN  IF IsFloat(r2["Turnover"])
                 THEN SetKey(r2, "Volume",
                             Format0fTimes100(FloatTable[r2["Turnover"]]))
                 ELSE r2
        ELSE SetKey(SetKey(r1, "Symbol", "INDIAVIX"), "Volume", "0")

\* The placeholder rules and the zero-OHLC-fill, as _manipulate_nse_indices
\* applies them.
IndicesSanitize(record) ==
    _sanitize_ohlc(_convert_blank_to_zero(_convert_dash_to_zero(record)))

RECURSIVE IndicesLoop(_, _, _, _, _, _)
IndicesLoop(input_data, i, file, perr, data, org) ==
    IF i > Len(input_data) THEN Ok(data, org)
    ELSE LET record == IndicesRecord(input_data[i])
             e == ParseError(GetDate(record), perr)
         IN  IF e = "TypeError"
             THEN IndicesLoop(input_data, i + 1, file, perr, data, org)
             ELSE IF e # "none" THEN Raised(e)
             ELSE IndicesLoop(input_data, i + 1, file, perr,
                    Append(data, IndicesSanitize(
                        SetKey(record, "Date", DateTable[record["Date"]]))),
                    Append(org, foo_copy(file, i)))

_manipulate_nse_indices(input_data, file, perr, data, org) ==
    IndicesLoop(input_data, 1, file, perr, data, org)

\* delv_oi.get((Symbol, Series)): the dict comprehension keeps, for a key
\* that several rows have, the OI of the last of them.
DelvOiGet(input_delv, symbol, series) ==
    LET hits == {j \in 1 .. Len(input_delv) :
                    /\ input_delv[j]["Symbol"] = symbol
                    /\ input_delv[j]["Series"] = series}
    IN  IF hits = {} THEN None
        ELSE input_delv[CHOOSE j \in hits : \A h \in hits : h <= j]["OI"]

\* What the body of the loop of _manipulate_nse_equities raises for foo.
\* delv_oi is built only from a list that is not empty; .get of a delv_oi
\* that is None is an AttributeError.
EquitiesError(foo, input_delv, perr) ==
    IF foo["Series"] \notin {"BE", "EQ"} THEN "none"
    ELSE IF /\ foo["Series"] = "EQ"
            /\ ~input_delv.is_none
            /\ Len(input_delv.list) = 0
         THEN "AttributeError"
    ELSE ParseError(GetDate(foo), perr)

\* EquitiesRecord with the OI of delv_oi for Series BE as well.
EquitiesRecord_be_from_delivery(foo, input_delv) ==
    LET oi == IF input_delv.is_none
              THEN (IF foo["Series"] = "BE" THEN foo["Volume"] ELSE "0")
              ELSE DelvOiGet(input_delv.list, foo["Symbol"], foo["Series"])
        r1 == SetKey(foo, "OI", oi)
    IN  _sanitize_ohlc(SetKey(r1, "Date", DateTable[r1["Date"]]))

\* The record the loop appends for a foo of Series BE or EQ.
EquitiesRecord(foo, input_delv) ==
    LET oi == IF foo["Series"] = "BE" THEN foo["Volume"]
              ELSE IF input_delv.is_none THEN "0"
              ELSE DelvOiGet(input_delv.list, foo["Symbol"], foo["Series"])
        r1 == SetKey(foo, "OI", oi)
    IN  _sanitize_ohlc(SetKey(r1, "Date", DateTable[r1["Date"]]))

RECURSIVE EquitiesLoop(_, _, _, _, _, _)
EquitiesLoop(input_bhav, i, input_delv, perr, data, org) ==
    IF i > Len(input_bhav) THEN Ok(data, org)
    ELSE LET foo == input_bhav[i]
             e == EquitiesError(foo, input_delv, perr)
         IN  IF e # "none" THEN Raised(e)
             ELSE IF foo["Series"] \notin {"BE", "EQ"}
             THEN EquitiesLoop(input_bhav, i + 1, input_delv, perr, data, org)
             ELSE EquitiesLoop(input_bhav, i + 1, input_delv, perr,
                    Append(data, EquitiesRecord(foo, input_delv)),
                    Append(org, foo_copy("bhav", i)))

RECURSIVE EquitiesLoop_every_series(_, _, _, _, _, _)
\* EquitiesLoop with a record for a foo of every Series.
EquitiesLoop_every_series(input_bhav, i, input_delv, perr, data, org) ==
    IF i > Len(input_bhav) THEN Ok(data, org)
    ELSE LET foo == input_bhav[i]
             e == EquitiesError(foo, input_delv, perr)
         IN  IF e # "none" THEN Raised(e)
             ELSE EquitiesLoop_every_series(input_bhav, i + 1, input_delv,
                    perr, Append(data, EquitiesRecord(foo, input_delv)),
                    Append(org, foo_copy("bhav", i)))

\* _manipulate_nse_equities without the test of foo['Series'].
_manipulate_nse_equities_any_series(input_bhav, input_delv, perr, data, org) ==
    EquitiesLoop_every_series(input_bhav, 1, input_delv, perr, data, org)

_manipulate_nse_equities(input_bhav, input_delv, perr, data, org) ==
    EquitiesLoop(input_bhav, 1, input_delv, perr, data, org)

future_suffix ==
    <<"-I", "-II", "-III", "-IV", "-V", "-VI", "-VII", "-VIII", "-IX", "-X",
      "-XI", "-XII", "-XIII", "-XIV", "-XV", "-XVI">>
\* The tuple of instruments without FUTIVX.
futures_instruments_without_futivx == {"FUTIDX", "FUTSTK"}
futures_instruments == {"FUTIDX", "FUTIVX", "FUTSTK"}

\* NextPos without the reset to 0 for another Symbol.
NextPos_without_reset(pos, current_symbol, previous_symbol) ==
    IF previous_symbol = None THEN 0 ELSE pos + 1

\* NextPos without the increment for the same Symbol.
NextPos_without_increment(pos, current_symbol, previous_symbol) == 0

\* pos after the if of the loop of _manipulate_nse_futures.
NextPos(pos, current_symbol, previous_symbol) ==
    IF current_symbol = previous_symbol THEN pos + 1 ELSE 0

\* FuturesRecord with _sanitize_ohlc before Close is overwritten.
FuturesRecord_sanitize_first(foo, pos) ==
    LET r1 == SetKey(foo, "Symbol", foo["Symbol"] \o future_suffix[pos + 1])
        r2 == SetKey(r1, "Volume", r1["Contracts"])
        r3 == SetKey(r2, "Date", DateTable[r2["Date"]])
        r4 == _sanitize_ohlc(r3)
    IN  SetKey(r4, "Close", r4["Settlement_Price"])

\* The record the loop appends for a foo that is a future; future_suffix[pos]
\* of Python is future_suffix[pos + 1] here.
FuturesRecord(foo, pos) ==
    LET r1 == SetKey(foo, "Symbol", foo["Symbol"] \o future_suffix[pos + 1])
        r2 == SetKey(r1, "Volume", r1["Contracts"])
        r3 == SetKey(r2, "Date", DateTable[r2["Date"]])
        r4 == SetKey(r3, "Close", r3["Settlement_Price"])
    IN  _sanitize_ohlc(r4)

RECURSIVE FuturesLoop(_, _, _, _, _, _, _)
\* previous_symbol is None before the first future.
FuturesLoop(input_bhav, i, pos, previous_symbol, perr, data, org) ==
    IF i > Len(input_bhav) THEN Ok(data, org)
    ELSE LET foo == input_bhav[i]
             p == NextPos(pos, foo["Symbol"], previous_symbol)
         IN  IF foo["Instrument"] \notin futures_instruments
             THEN FuturesLoop(input_bhav, i + 1, pos, previous_symbol, perr,
                              data, org)
             ELSE IF p >= Len(future_suffix) THEN Raised("IndexError")
             ELSE IF ParseError(GetDate(foo), perr) # "none"
             THEN Raised(ParseError(GetDate(foo), perr))
             ELSE FuturesLoop(input_bhav, i + 1, p, foo["Symbol"], perr,
                    Append(data, FuturesRecord(foo, p)),
                    Append(org, foo_copy("bhav", i)))

_manipulate_nse_futures(input_bhav, perr, data, org) ==
    FuturesLoop(input_bhav, 1, 0, None, perr, data, org)

(***************************************************************************)
(* Files.                                                                  *)
(***************************************************************************)
NoFile == [exists |-> FALSE, lines |-> <<>>]
File(lines) == [exists |-> TRUE, lines |-> lines]
\* A csv of an earlier run at the place of an output file.
OldFile == File(<<<<"old">>>>)

SeqsUpTo(S, n) == UNION {[1 .. k -> S] : k \in 0 .. n}
\* A file that is not there, or one of at most n lines of S.
FileChoices(S, n) == {NoFile} \cup {File(l) : l \in SeqsUpTo(S, n)}

\* Lines of ind_close_all_<date>.csv: the header, a line as usual, one of
\* dashes, one with zero Open, High and Low and blank Volume and Turnover,
\* one with an Open that is no number, one with spaces around its values,
\* one that ends after Close, and one with a cell too many.
IndexHeader ==
    <<"Index Name", "Index Date", "Open Index Value", "High Index Value",
      "Low Index Value", "Closing Index Value", "Points Change", "Change(%)",
      "Volume", "Turnover (Rs. Cr.)", "P/E", "P/B", "Div Yield">>
IndexPlain ==
    <<"nifty 50", "13-05-2014", "5.5", "7", "5.5", "7", "1", "1", "1000",
      "1234.5", "1", "1", "1">>
IndexDashes ==
    <<"nifty 50", "13-05-2014", "-", "-", "-", "-", "-", "-", "-", "-", "-",
      "-", "-">>
IndexZeroOhl ==
    <<"nifty 50", "13-05-2014", "0", "0", "0", "5.5", "1", "1", "", "", "1",
      "1", "1">>
IndexBadNumber ==
    <<"nifty 50", "13-05-2014", "NA", "7", "5.5", "7", "1", "1", "1000",
      "1234.5", "1", "1", "1">>
IndexSpaces ==
    <<" FOO ", "13-05-2014", " 0 ", " 0 ", " 0 ", " 5.5 ", "1", "1", "1000",
      "1", "1", "1", "1">>
IndexShort ==
    <<"nifty 50", "13-05-2014", "5.5", "7", "5.5", "7">>
IndexLong ==
    <<"nifty 50", "13-05-2014", "5.5", "7", "5.5", "7", "1", "1", "1000",
      "1234.5", "1", "1", "1", "extra">>
IndicesLines ==
    {IndexHeader, IndexPlain, IndexDashes, IndexZeroOhl, IndexBadNumber,
     IndexSpaces, IndexShort, IndexLong}
IndicesRangeLines == {IndexPlain, IndexBadNumber}

\* Lines of hist_india_vix_<date>_<date>.csv: the header, a line as usual,
\* one with zero Open, High and Low, and a line without cells.
VixHeader ==
    <<"Date", "Open", "High", "Low", "Close", "Prev. Close", "Change",
      "% Change">>
VixPlain == <<"13-May-2014", "5.5", "7", "5.5", "7", "7", "1", "1">>
VixZeroOhl == <<"13-May-2014", "0", "0", "0", "7", "-", "-", "-">>
VixLines == {VixHeader, VixPlain, VixZeroOhl, <<>>}
VixRangeLines == {VixPlain}

\* Lines of cm<date>bhav.csv: the header, a line of Series EQ, one of BE, one
\* of another Series, one of BE with zero Open, High and Low and a dash as
\* Volume, one of BE with a dash as Open, and one of EQ that ends before Date.
EquityHeader ==
    <<"SYMBOL", "SERIES", "OPEN", "HIGH", "LOW", "CLOSE", "LAST",
      "PREVCLOSE", "TOTTRDQTY", "TOTTRDVAL", "TIMESTAMP", "TOTALTRADES",
      "ISIN">>
EquityEq ==
    <<"FOO", "EQ", "5.5", "7", "5.5", "7", "7", "7", "1000", "1",
      "13-May-2014", "1", "1">>
EquityBe ==
    <<"FOO", "BE", "5.5", "7", "5.5", "7", "7", "7", "1000", "1",
      "13-May-2014", "1", "1">>
EquityOther ==
    <<"FOO", "N1", "5.5", "7", "5.5", "7", "7", "7", "1000", "1",
      "13-May-2014", "1", "1">>
EquityZeroOhl ==
    <<"BAR", "BE", "0", "0", "0", "5.5", "7", "7", "-", "1", "13-May-2014",
      "1", "1">>
EquityDash ==
    <<"FOO", "BE", "-", "7", "5.5", "7", "7", "7", "1000", "1",
      "13-May-2014", "1", "1">>
EquityNoDate ==
    <<"FOO", "EQ", "5.5", "7", "5.5", "7", "7", "7", "1000", "1">>
EquitiesLines ==
    {EquityHeader, EquityEq, EquityBe, EquityOther, EquityZeroOhl,
     EquityDash, EquityNoDate}
EquitiesRangeLines == {EquityBe, EquityNoDate}

\* Lines of MTO_<date>.DAT: a title line, the line of (FOO, EQ), the line of
\* (FOO, BE), and a line of (FOO, EQ) that ends before OI.
DeliveryTitle == <<"Security Wise Delivery Position">>
DeliveryEq == <<"20", "1", "FOO", "EQ", "1000", "500", "50.00">>
DeliveryBe == <<"20", "2", "FOO", "BE", "1000", "777", "7.00">>
DeliveryShort == <<"20", "1", "FOO", "EQ", "1000">>
DeliveryLines == {DeliveryTitle, DeliveryEq, DeliveryBe, DeliveryShort}
DeliveryRangeLines == {DeliveryEq}

\* Lines of fo<date>bhav.csv: the header, a future of NIFTY, a future of ACC,
\* an option of NIFTY, a future of NIFTY with zero Open, High, Low and Close
\* and placeholders as Contracts and OI, a future of ACC with zero Open,
\* High, Low and Settlement_Price, a future of NIFTY with a dash as Open, and
\* a future of NIFTY that ends before Date.
FutureHeader ==
    <<"INSTRUMENT", "SYMBOL", "EXPIRY_DT", "STRIKE_PR", "OPTION_TYP", "OPEN",
      "HIGH", "LOW", "CLOSE", "SETTLE_PR", "CONTRACTS", "VAL_INLAKH",
      "OPEN_INT", "CHG_IN_OI", "TIMESTAMP">>
FutureNifty ==
    <<"FUTIDX", "NIFTY", "29-May-2014", "0", "XX", "5.5", "7", "5.5", "5.5",
      "7", "1000", "1", "500", "1", "13-May-2014">>
FutureAcc ==
    <<"FUTSTK", "ACC", "29-May-2014", "0", "XX", "5.5", "7", "5.5", "5.5",
      "7", "1000", "1", "500", "1", "13-May-2014">>
OptionNifty ==
    <<"OPTIDX", "NIFTY", "29-May-2014", "7", "CE", "5.5", "7", "5.5", "5.5",
      "7", "1000", "1", "500", "1", "13-May-2014">>
FutureZeroOhlc ==
    <<"FUTIVX", "NIFTY", "29-May-2014", "0", "XX", "0", "0", "0", "0", "7",
      "-", "1", "", "1", "13-May-2014">>
FutureZeroSettle ==
    <<"FUTSTK", "ACC", "29-May-2014", "0", "XX", "0", "0", "0", "5.5", "0",
      "1000", "1", "500", "1", "13-May-2014">>
FutureDash ==
    <<"FUTIDX", "NIFTY", "29-May-2014", "0", "XX", "-", "7", "5.5", "5.5",
      "7", "1000", "1", "500", "1", "13-May-2014">>
FutureNoDate ==
    <<"FUTIDX", "NIFTY", "29-May-2014", "0", "XX", "5.5", "7", "5.5", "5.5",
      "7", "1000", "1", "500", "1">>
FuturesLines ==
    {FutureHeader, FutureNifty, FutureAcc, OptionNifty, FutureZeroOhlc,
     FutureZeroSettle, FutureDash, FutureNoDate}
FuturesRangeLines == {FutureNifty, FutureDash}

\* The line sets of the input files: of one date, and of a range of dates.
AllLines == [ind |-> IndicesLines, vix |-> VixLines, eq |-> EquitiesLines,
             delv |-> DeliveryLines, fut |-> FuturesLines]
RangeLines == [ind |-> IndicesRangeLines, vix |-> VixRangeLines,
               eq |-> EquitiesRangeLines, delv |-> DeliveryRangeLines,
               fut |-> FuturesRangeLines]

\* The input files a download can leave for a date: bhav is the bhavcopy,
\* sec the volatility-index file or the delivery file.  The volatility-index
\* file is fetched only for dates before VixCutoff.
Downloads(cat, date, L, rows, fut_rows, delv_rows, vix_rows) ==
    CASE cat = "Indices" ->
            {[bhav |-> b, sec |-> v] :
                b \in FileChoices(L.ind, rows),
                v \in IF date < VixCutoff
                      THEN FileChoices(L.vix, vix_rows) ELSE {NoFile}}
      [] cat = "Equities" ->
            {[bhav |-> b, sec |-> v] :
                b \in FileChoices(L.eq, rows),
                v \in FileChoices(L.delv, delv_rows)}
      [] cat = "Futures" ->
            {[bhav |-> b, sec |-> NoFile] :
                b \in FileChoices(L.fut, fut_rows)}

(***************************************************************************)
(* _parse_nse_*: read the input files and manipulate them.  A file that is *)
(* not there is a FileNotFoundError of _read_input_as_list, which these    *)
(* functions catch.  Each gives Ok or Raised as the normalizers do, and    *)
(* read: the files it opened.                                              *)
(***************************************************************************)
WithRead(result, read) ==
    [exc |-> result.exc, data |-> result.data, org |-> result.org,
     read |-> read]

_parse_nse_indices(input_file, input_fieldnames, file, perr, data, org) ==
    IF ~input_file.exists THEN WithRead(Ok(data, org), {})
    ELSE WithRead(_manipulate_nse_indices(
                      _read_input_as_list(input_file.lines, input_fieldnames),
                      file, perr, data, org),
                  {file})

_parse_nse_equities(input_bhav_file, input_delv_file, perr, data, org) ==
    LET bhav_data == _read_input_as_list(input_bhav_file.lines,
                                         equities_bhav_fieldnames)
        delv_data == _read_input_as_list(input_delv_file.lines,
                                         equities_delv_fieldnames)
    IN  IF ~input_bhav_file.exists
        THEN \* bhav_data is None: nothing is processed
             WithRead(Ok(data, org), {})
        ELSE IF ~input_delv_file.exists
        THEN IF Len(bhav_data) = 0
             THEN \* "not bhav_data" holds for the empty list as well
                  WithRead(Ok(data, org), {"bhav"})
             ELSE WithRead(_manipulate_nse_equities(bhav_data, NoneList, perr,
                                                    data, org),
                           {"bhav"})
        ELSE WithRead(_manipulate_nse_equities(bhav_data, Some(delv_data),
                                               perr, data, org),
                      {"bhav", "sec"})

\* _parse_nse_futures without its except clause.
_parse_nse_futures_without_except(input_file, perr, data, org) ==
    IF ~input_file.exists THEN WithRead(Raised("FileNotFoundError"), {})
    ELSE WithRead(_manipulate_nse_futures(
                      _read_input_as_list(input_file.lines,
                                          futures_bhav_fieldnames),
                      perr, data, org),
                  {"bhav"})

_parse_nse_futures(input_file, perr, data, org) ==
    IF ~input_file.exists THEN WithRead(Ok(data, org), {})
    ELSE WithRead(_manipulate_nse_futures(
                      _read_input_as_list(input_file.lines,
                                          futures_bhav_fieldnames),
                      perr, data, org),
                  {"bhav"})

(***************************************************************************)
(* write_csv.                                                              *)
(***************************************************************************)
\* The line csv.DictWriter writes for a dict: the values in the order of
\* fieldnames, "" for a key that is not there and for None.
CsvRow(fieldnames, element) ==
    [i \in 1 .. Len(fieldnames) |->
        IF fieldnames[i] \notin DOMAIN element THEN ""
        ELSE IF element[fieldnames[i]] = None THEN ""
        ELSE element[fieldnames[i]]]

\* csv.DictWriter raises a ValueError for a dict with a key that is not in
\* fieldnames (extrasaction is 'raise').
HasExtraKey(fieldnames, element) ==
    \E k \in DOMAIN element : k \notin Range(fieldnames)

\* write_csv without its early return for no data.
write_csv_without_return(old_file, header, fieldnames, data) ==
    [exc |-> "none",
     file |-> File(<<header>> \o
                   [i \in 1 .. Len(data) |-> CsvRow(fieldnames, data[i])])]

\* write_csv without the writerow(header).
write_csv_without_header(old_file, header, fieldnames, data) ==
    IF Len(data) < 1 THEN [exc |-> "none", file |-> old_file]
    ELSE LET bad == {i \in 1 .. Len(data) : HasExtraKey(fieldnames, data[i])}
             n == IF bad = {} THEN Len(data)
                  ELSE (CHOOSE i \in bad : \A j \in bad : i <= j) - 1
         IN  [exc |-> IF bad = {} THEN "none" ELSE "ValueError",
              file |-> File([i \in 1 .. n |-> CsvRow(fieldnames, data[i])])]

\* The file after write_csv: untouched for no data; else the header and the
\* rows, up to the first dict that raises.
write_csv(old_file, header, fieldnames, data) ==
    IF Len(data) < 1 THEN [exc |-> "none", file |-> old_file]
    ELSE LET bad == {i \in 1 .. Len(data) : HasExtraKey(fieldnames, data[i])}
             n == IF bad = {} THEN Len(data)
                  ELSE (CHOOSE i \in bad : \A j \in bad : i <= j) - 1
         IN  [exc |-> IF bad = {} THEN "none" ELSE "ValueError",
              file |-> File(<<header>> \o
                            [i \in 1 .. n |-> CsvRow(fieldnames, data[i])])]

(***************************************************************************)
(* The program.  pc is "loop" at the head of the while loop of the driver, *)
(* "download" before _download_nse_*, "parse" at the start of              *)
(* _output_nse_*, "parse_vix" before the second _parse_nse_indices,        *)
(* "finalize" before _finalize_output, "write" before write_csv, "done"    *)
(* when the driver has returned and "raised" when an exception left it.    *)
(***************************************************************************)
Categories == {"Indices", "Equities", "Futures"}

NoError == [exc |-> "none", at |-> "none"]
\* The value of err after a step at pc that ended with exc.
ErrorOf(exc) == IF exc = "none" THEN NoError ELSE [exc |-> exc, at |-> pc]

NoDownload == [bhav |-> NoFile, sec |-> NoFile]

InitCommon ==
    /\ category \in Categories
    /\ ignore_weekend \in BOOLEAN
    /\ parser_error \in ParserErrors
    /\ current_date = start_date
    /\ pc = "loop"
    /\ dl = NoDownload
    /\ output_data = <<>>
    /\ origin = <<>>
    /\ out_fs \in {[d \in Dates |-> NoFile], [d \in Dates |-> OldFile]}
    /\ err = NoError
    /\ opened = {}
    /\ downloaded = {}
    /\ processed = {}

\* process_nse_*(start_date): end_date is None and becomes start_date.
Init ==
    /\ start_date \in Dates
    /\ end_date = start_date
    /\ InitCommon

\* process_nse_*(start_date, end_date)
InitRange ==
    /\ start_date \in Dates
    /\ end_date \in Dates
    /\ InitCommon

\* The while loop: a Saturday or Sunday is skipped when ignore_weekend.
LoopSkip ==
    /\ pc = "loop"
    /\ current_date <= end_date
    /\ ignore_weekend /\ isoweekday(current_date) \in {6, 7}
    /\ current_date' = current_date + 1
    /\ UNCHANGED <<category, start_date, end_date, ignore_weekend, pc,
                   parser_error, dl, output_data, origin, out_fs, err,
                   opened, downloaded, processed>>

LoopEnter ==
    /\ pc = "loop"
    /\ current_date <= end_date
    /\ ~(ignore_weekend /\ isoweekday(current_date) \in {6, 7})
    /\ pc' = "download"
    /\ UNCHANGED <<category, start_date, end_date, ignore_weekend,
                   current_date, parser_error, dl, output_data, origin,
                   out_fs, err, opened, downloaded, processed>>

LoopExit ==
    /\ pc = "loop"
    /\ ~(current_date <= end_date)
    /\ pc' = "done"
    /\ UNCHANGED <<category, start_date, end_date, ignore_weekend,
                   current_date, parser_error, dl, output_data, origin,
                   out_fs, err, opened, downloaded, processed>>

\* _download_nse_*(current_date): whatever the servers give is in
\* download_location afterwards; a failed download is logged, not raised.
DownloadFiles(files) ==
    /\ pc = "download"
    /\ dl' \in files
    /\ downloaded' = downloaded \cup {current_date}
    /\ output_data' = <<>>
    /\ origin' = <<>>
    /\ opened' = {}
    /\ pc' = "parse"
    /\ UNCHANGED <<category, start_date, end_date, ignore_weekend,
                   current_date, parser_error, out_fs, err, processed>>

Download ==
    DownloadFiles(Downloads(category, current_date, AllLines, MaxRows,
                            MaxFutRows, MaxDelvRows, MaxVixRows))

DownloadRange ==
    DownloadFiles(Downloads(category, current_date, RangeLines,
                            MaxRangeRows, MaxRangeRows, MaxRangeRows,
                            MaxRangeRows))

\* A step of _output_nse_* that ran a function with result r: on to pc
\* next, or out of the driver with the exception.
Step(r, next) ==
    /\ pc' = IF r.exc = "none" THEN next ELSE "raised"
    /\ err' = ErrorOf(r.exc)
    /\ output_data' = IF r.exc = "none" THEN r.data ELSE output_data
    /\ origin' = IF r.exc = "none" THEN r.org ELSE origin

\* _output_nse_indices: output_data = [] and the first _parse_nse_indices.
ParseIndicesBhav ==
    /\ pc = "parse"
    /\ category = "Indices"
    /\ LET r == _parse_nse_indices(dl.bhav, indices_bhav_fieldnames, "bhav",
                                   parser_error, <<>>, <<>>)
       IN  /\ Step(r, IF current_date < VixCutoff THEN "parse_vix"
                      ELSE "finalize")
           /\ opened' = opened \cup r.read
    /\ UNCHANGED <<category, start_date, end_date, ignore_weekend,
                   current_date, parser_error, dl, out_fs, downloaded,
                   processed>>

\* _output_nse_indices: the second _parse_nse_indices, before VixCutoff.
ParseIndicesVix ==
    /\ pc = "parse_vix"
    /\ LET r == _parse_nse_indices(dl.sec, indices_vix_fieldnames, "sec",
                                   parser_error, output_data, origin)
       IN  /\ Step(r, "finalize")
           /\ opened' = opened \cup r.read
    /\ UNCHANGED <<category, start_date, end_date, ignore_weekend,
                   current_date, parser_error, dl, out_fs, downloaded,
                   processed>>

\* _output_nse_equities: output_data = [] and _parse_nse_equities.
ParseEquities ==
    /\ pc = "parse"
    /\ category = "Equities"
    /\ LET r == _parse_nse_equities(dl.bhav, dl.sec, parser_error,
                                    <<>>, <<>>)
       IN  /\ Step(r, "finalize")
           /\ opened' = opened \cup r.read
    /\ UNCHANGED <<category, start_date, end_date, ignore_weekend,
                   current_date, parser_error, dl, out_fs, downloaded,
                   processed>>

\* _output_nse_futures: output_data = [] and _parse_nse_futures.
ParseFutures ==
    /\ pc = "parse"
    /\ category = "Futures"
    /\ LET r == _parse_nse_futures(dl.bhav, parser_error, <<>>, <<>>)
       IN  /\ Step(r, "finalize")
           /\ opened' = opened \cup r.read
    /\ UNCHANGED <<category, start_date, end_date, ignore_weekend,
                   current_date, parser_error, dl, out_fs, downloaded,
                   processed>>

\* _output_nse_*: _finalize_output(output_data).
Finalize ==
    /\ pc = "finalize"
    /\ Step(_finalize_output(output_data, origin), "write")
    /\ UNCHANGED <<category, start_date, end_date, ignore_weekend,
                   current_date, parser_error, dl, out_fs, opened,
                   downloaded, processed>>

\* _output_nse_*: write_csv, the return to the driver and its
\* current_date += time_delta.
WriteCsv ==
    /\ pc = "write"
    /\ LET w == write_csv(out_fs[current_date], out_header, out_fieldnames,
                          output_data)
       IN  /\ out_fs' = [out_fs EXCEPT ![current_date] = w.file]
           /\ err' = ErrorOf(w.exc)
           /\ pc' = IF w.exc = "none" THEN "loop" ELSE "raised"
           /\ processed' = IF w.exc = "none"
                           THEN processed \cup {current_date} ELSE processed
           /\ current_date' = IF w.exc = "none" THEN current_date + 1
                              ELSE current_date
    /\ UNCHANGED <<category, start_date, end_date, ignore_weekend,
                   parser_error, dl, output_data, origin, opened,
                   downloaded>>

\* The futures bhavcopies of up to MaxRunRows futures of NIFTY followed by up
\* to MaxRunRows futures of ACC, and none.
RunFiles ==
    {NoFile} \cup
    {File([i \in 1 .. k |-> FutureNifty] \o [i \in 1 .. m |-> FutureAcc]) :
        k \in 0 .. MaxRunRows, m \in 0 .. MaxRunRows}

\* _download_nse_*(current_date) where the futures bhavcopy holds long runs
\* of one Symbol.
DownloadRun ==
    DownloadFiles(IF category = "Futures"
                  THEN {[bhav |-> b, sec |-> NoFile] : b \in RunFiles}
                  ELSE Downloads(category, current_date, RangeLines,
                                 MaxRangeRows, MaxRangeRows, MaxRangeRows,
                                 MaxRangeRows))

Pipeline ==
    \/ ParseIndicesBhav
    \/ ParseIndicesVix
    \/ ParseEquities
    \/ ParseFutures
    \/ Finalize
    \/ WriteCsv

Next ==
    \/ LoopSkip
    \/ LoopEnter
    \/ LoopExit
    \/ Download
    \/ Pipeline

NextRange ==
    \/ LoopSkip
    \/ LoopEnter
    \/ LoopExit
    \/ DownloadRange
    \/ Pipeline

NextRun ==
    \/ LoopSkip
    \/ LoopEnter
    \/ LoopExit
    \/ DownloadRun
    \/ Pipeline

\* One date is processed, with input files of up to MaxRows lines.
Spec == Init /\ [][Next]_vars

\* A range of dates is processed, with input files of up to MaxRangeRows
\* lines.
SpecRange == InitRange /\ [][NextRange]_vars

\* One date is processed, with a futures bhavcopy of up to MaxRunRows
\* futures of one Symbol after another.
SpecRun == Init /\ [][NextRun]_vars

(***************************************************************************)
(* What the properties below speak of.                                     *)
(***************************************************************************)
\* The list _read_input_as_list gave for the file that origin names.
InputList(file) ==
    CASE category = "Indices" /\ file = "bhav" ->
            _read_input_as_list(dl.bhav.lines, indices_bhav_fieldnames)
      [] category = "Indices" /\ file = "sec" ->
            _read_input_as_list(dl.sec.lines, indices_vix_fieldnames)
      [] category = "Equities" /\ file = "bhav" ->
            _read_input_as_list(dl.bhav.lines, equities_bhav_fieldnames)
      [] category = "Equities" /\ file = "sec" ->
            _read_input_as_list(dl.sec.lines, equities_delv_fieldnames)
      [] category = "Futures" ->
            _read_input_as_list(dl.bhav.lines, futures_bhav_fieldnames)

\* The source record of the i-th element of output_data.
Src(i) == InputList(origin[i].file)[origin[i].row]

\* The normalizers have returned for the date of dl: output_data holds what
\* they emitted.
Manipulated == pc = "finalize"
\* _finalize_output has returned as well: output_data is what write_csv gets
\* (pc is "loop" or "done" after write_csv; output_data is kept until the
\* next date).
Finalized == pc \in {"write", "loop", "done"}

(***************************************************************************)
(* C1: write_csv leaves the output file alone when the normalized record   *)
(* sequence is empty: the file of a date changes only in the write_csv     *)
(* step of a pipeline, and only when output_data holds at least one        *)
(* record.                                                                 *)
(***************************************************************************)
C1_FileWrittenOnlyForRecords ==
    [][(out_fs' # out_fs) => (pc = "write" /\ Len(output_data) >= 1)]_vars

\* A date was processed to its end with no record: the file of an earlier
\* run is still there.
C1_Witness ==
    /\ pc = "done"
    /\ start_date \in processed
    /\ dl.bhav.exists
    /\ output_data = <<>>
    /\ out_fs[start_date] = OldFile

(***************************************************************************)
(* C2: in every category, an emitted record whose source Close is not "0"  *)
(* while its source Open, High and Low are all "0" has Open = High = Low = *)
(* Close, before and after the float formatting.                           *)
(***************************************************************************)
ZeroOhlSource(foo) ==
    /\ foo["Close"] # "0"
    /\ foo["Open"] = "0" /\ foo["High"] = "0" /\ foo["Low"] = "0"

C2_ZeroFill ==
    (Manipulated \/ Finalized) =>
        \A i \in 1 .. Len(output_data) :
            ZeroOhlSource(Src(i)) =>
                /\ output_data[i]["Open"] = output_data[i]["Close"]
                /\ output_data[i]["High"] = output_data[i]["Close"]
                /\ output_data[i]["Low"] = output_data[i]["Close"]

\* Such a record is handed to write_csv with a Close that is not zero.
C2_Witness ==
    /\ pc = "write"
    /\ \E i \in 1 .. Len(output_data) :
          /\ ZeroOhlSource(Src(i))
          /\ output_data[i]["Close"] = "5.50"
          /\ output_data[i]["Low"] = "5.50"

(***************************************************************************)
(* C3: in every category, a field of a source record that is "-" or "" is  *)
(* "0" in the emitted record once the normalizer has sanitized it, before  *)
(* _format_output_data parses Open, High, Low and Close (or it is the      *)
(* Close the zero-OHLC-fill gave it).  The fields a normalizer assigns     *)
(* anew are left out.                                                      *)
(***************************************************************************)
AssignedKeys ==
    CASE category = "Indices" -> {"Symbol", "Date", "Volume", "OI"}
      [] category = "Equities" -> {"Date", "OI"}
      [] category = "Futures" -> {"Symbol", "Date", "Close", "Volume"}

C3_PlaceholderLaw ==
    Manipulated =>
        \A i \in 1 .. Len(output_data) :
            \A k \in (DOMAIN Src(i)) \ AssignedKeys :
                Src(i)[k] \in {"-", ""} =>
                    \/ output_data[i][k] = "0"
                    \/ /\ k \in {"Open", "High", "Low"}
                       /\ output_data[i][k] = output_data[i]["Close"]

(***************************************************************************)
(* C4: for an Equities record of Series "EQ", with a delivery file that    *)
(* holds rows: the OI handed to write_csv is the OI of a delivery row with *)
(* the same (Symbol, Series), or "0" when no delivery row matches; the     *)
(* lookup fails for no record.                                             *)
(***************************************************************************)
DeliveryMatches(foo) ==
    {j \in 1 .. Len(InputList("sec")) :
        /\ InputList("sec")[j]["Symbol"] = foo["Symbol"]
        /\ InputList("sec")[j]["Series"] = foo["Series"]}

C4_EquitiesOiLookup ==
    (category = "Equities" /\ dl.sec.exists /\ Len(InputList("sec")) >= 1) =>
        /\ err.exc # "AttributeError"
        /\ Finalized =>
              \A i \in 1 .. Len(output_data) :
                  Src(i)["Series"] = "EQ" =>
                      IF DeliveryMatches(Src(i)) = {}
                      THEN output_data[i]["OI"] = "0"
                      ELSE \E j \in DeliveryMatches(Src(i)) :
                              output_data[i]["OI"] = InputList("sec")[j]["OI"]

(***************************************************************************)
(* C5: in Futures, the k-th record of a maximal run of consecutively       *)
(* emitted records with the same source Symbol has that Symbol with the    *)
(* k-th ordinal suffix (-I, -II, -III, ...); the run starts anew with the  *)
(* first emitted record of another Symbol, and rows that are not emitted   *)
(* neither advance nor reset the count.                                    *)
(***************************************************************************)
RECURSIVE Roman(_)
\* The Roman numeral of k, for 1 <= k < 40.
Roman(k) ==
    IF k >= 10 THEN "X" \o (IF k = 10 THEN "" ELSE Roman(k - 10))
    ELSE <<"I", "II", "III", "IV", "V", "VI", "VII", "VIII", "IX">>[k]

\* The place of the i-th emitted record in its run of one source Symbol.
RunPosition(i) ==
    LET breaks == {j \in 1 .. (i - 1) : Src(j)["Symbol"] # Src(i)["Symbol"]}
    IN  IF breaks = {} THEN i
        ELSE i - (CHOOSE j \in breaks : \A b \in breaks : b <= j)

C5_FuturesSuffix ==
    (category = "Futures" /\ (Manipulated \/ Finalized)) =>
        \A i \in 1 .. Len(output_data) :
            output_data[i]["Symbol"] =
                Src(i)["Symbol"] \o "-" \o Roman(RunPosition(i))

\* Two futures of NIFTY with a row that is not emitted between them: the
\* second is NIFTY-II.
C5_Witness ==
    /\ category = "Futures"
    /\ pc = "write"
    /\ Len(output_data) = 2
    /\ origin[1].row = 1
    /\ origin[2].row = 3
    /\ output_data[1]["Symbol"] = "NIFTY-I"
    /\ output_data[2]["Symbol"] = "NIFTY-II"

(***************************************************************************)
(* C6: within the output of one Futures normalization no two emitted       *)
(* records have the same suffixed Symbol.  As claimed, for every input:    *)
(***************************************************************************)
C6_UniqueSymbolsAnyInput ==
    (category = "Futures" /\ (Manipulated \/ Finalized)) =>
        \A i, j \in 1 .. Len(output_data) :
            i # j => output_data[i]["Symbol"] # output_data[j]["Symbol"]

\* The emitted records of each source Symbol are consecutive.
SymbolsGrouped ==
    \A i, j \in 1 .. Len(output_data) :
        (i < j /\ Src(i)["Symbol"] = Src(j)["Symbol"]) =>
            \A m \in i .. j : Src(m)["Symbol"] = Src(i)["Symbol"]

(***************************************************************************)
(* C6, amended: no two emitted records have the same suffixed Symbol when  *)
(* the emitted records of each source Symbol are consecutive among the     *)
(* emitted records.                                                        *)
(***************************************************************************)
C6_UniqueSymbolsGrouped ==
    (category = "Futures" /\ (Manipulated \/ Finalized) /\ SymbolsGrouped) =>
        \A i, j \in 1 .. Len(output_data) :
            i # j => output_data[i]["Symbol"] # output_data[j]["Symbol"]

\* Two futures of NIFTY and then one of ACC are handed to write_csv.
C6_Witness ==
    /\ category = "Futures"
    /\ pc = "write"
    /\ Len(output_data) = 3
    /\ Src(1)["Symbol"] = "NIFTY"
    /\ Src(2)["Symbol"] = "NIFTY"
    /\ Src(3)["Symbol"] = "ACC"
    /\ SymbolsGrouped

(***************************************************************************)
(* C7: when an Open, High, Low or Close of a record is no number, the      *)
(* float formatting drops that record alone: _finalize_output returns, and *)
(* write_csv gets every record whose four values are numbers.  (Records    *)
(* whose strip loop fails are another matter and are left out.)            *)
(***************************************************************************)
NumbersParse(element) ==
    \A k \in format_floats : IsFloat(strip(element[k]))

C7_MalformedNumberDropsOneRecord ==
    [][(/\ pc = "finalize"
        /\ \A i \in 1 .. Len(output_data) :
              \A k \in strip_spaces :
                  StripError(output_data[i], k) = "none")
       => /\ pc' = "write"
          /\ err' = NoError
          /\ Range(origin') =
                {origin[i] : i \in {j \in 1 .. Len(output_data) :
                                      NumbersParse(output_data[j])}}]_vars

(***************************************************************************)
(* C8: in every category a record whose date text does not parse is        *)
(* skipped in silence: no exception of parse() leaves the normalizer, and  *)
(* no emitted record comes from such a row.                                *)
(***************************************************************************)
C8_UnparseableDateSkipped ==
    /\ ~(err.at \in {"parse", "parse_vix"} /\ err.exc \in ParserErrors)
    /\ (Manipulated \/ Finalized) =>
          \A i \in 1 .. Len(output_data) : IsDate(GetDate(Src(i)))

(***************************************************************************)
(* C9: no failure while one date is processed leaves the driver: when the  *)
(* driver is left, by return or by exception, every date of the range      *)
(* after current_date that the weekend rule does not skip was downloaded   *)
(* and processed, and after a return every such date of the range was.     *)
(***************************************************************************)
Skipped(d) == ignore_weekend /\ isoweekday(d) \in {6, 7}

C9_LaterDatesStillProcessed ==
    /\ pc = "raised" =>
          \A d \in (current_date + 1) .. end_date :
              ~Skipped(d) => (d \in downloaded /\ d \in processed)
    /\ pc = "done" =>
          \A d \in start_date .. end_date :
              ~Skipped(d) => (d \in downloaded /\ d \in processed)

(***************************************************************************)
(* C10: with the bhavcopy of the date absent, Equities and Futures emit no *)
(* record, read no file (the delivery file neither), write no file and     *)
(* raise nothing; Indices, before VixCutoff and with the VIX file there,   *)
(* go on to read it: what the normalizer emits are the INDIAVIX records of *)
(* that file, and write_csv writes the file when it gets records.  No      *)
(* FileNotFoundError leaves the processing of the date.                    *)
(***************************************************************************)
Unwritten(d) == out_fs[d] \in {NoFile, OldFile}

C10_AbsentPrimary ==
    (start_date \in downloaded /\ ~dl.bhav.exists) =>
        /\ err.exc # "FileNotFoundError"
        /\ category \in {"Equities", "Futures"} =>
              /\ pc # "raised"
              /\ output_data = <<>>
              /\ opened = {}
              /\ Unwritten(start_date)
        /\ (category = "Indices" /\ start_date < VixCutoff /\ dl.sec.exists) =>
              /\ pc \in {"finalize", "write", "loop", "done"} =>
                    "sec" \in opened
              /\ (Manipulated \/ Finalized) =>
                    /\ \A i \in 1 .. Len(output_data) :
                          /\ origin[i].file = "sec"
                          /\ output_data[i]["Symbol"] = "INDIAVIX"
                    /\ {origin[i].row : i \in 1 .. Len(output_data)} =
                          {j \in 1 .. Len(InputList("sec")) :
                              IsDate(GetDate(InputList("sec")[j]))}
              /\ (start_date \in processed /\ Len(output_data) >= 1) =>
                    ~Unwritten(start_date)

\* Indices before VixCutoff, no bhavcopy, a VIX file with a row: the row is
\* written to the file of the date.
C10_Witness ==
    /\ category = "Indices"
    /\ pc = "done"
    /\ start_date < VixCutoff
    /\ ~dl.bhav.exists /\ dl.sec.exists
    /\ start_date \in processed
    /\ Len(output_data) >= 1
    /\ output_data[1]["Symbol"] = "INDIAVIX"
    /\ ~Unwritten(start_date)

(***************************************************************************)
(* C11: Equities with the bhavcopy read and the delivery file absent:      *)
(* processing does not abort, every emitted record of Series "EQ" has OI   *)
(* "0", and the file of the date is written whenever a record was emitted. *)
(***************************************************************************)
DeliveryAbsent ==
    /\ category = "Equities"
    /\ start_date \in downloaded
    /\ dl.bhav.exists
    /\ ~dl.sec.exists

C11_DeliveryAbsentDegrades ==
    DeliveryAbsent =>
        /\ pc # "raised"
        /\ (Manipulated \/ Finalized) =>
              \A i \in 1 .. Len(output_data) :
                  Src(i)["Series"] = "EQ" => output_data[i]["OI"] = "0"
        /\ (pc \in {"loop", "done"} /\ Len(output_data) >= 1) =>
              ~Unwritten(start_date)

(***************************************************************************)
(* C12: every record that _finalize_output hands to write_csv has Symbol,  *)
(* Date, Open, High, Low, Close, Volume and OI, none of them None; and a   *)
(* field for which the source has no value ("" or "-") holds zero: "0",    *)
(* for Open, High, Low and Close "0.00" or the Close of the                *)
(* zero-OHLC-fill.                                                         *)
(***************************************************************************)
\* The text of the source from which field k of the i-th record is taken,
\* None where the normalizer sets the field without such a text.
SourceText(i, k) ==
    LET foo == Src(i)
    IN  CASE category = "Futures" ->
                IF k = "Volume" THEN foo["Contracts"]
                ELSE IF k = "Close" THEN foo["Settlement_Price"]
                ELSE foo[k]
          [] category = "Equities" ->
                IF k = "OI"
                THEN (IF foo["Series"] = "BE" THEN foo["Volume"] ELSE None)
                ELSE foo[k]
          [] category = "Indices" ->
                IF k = "OI" THEN None
                ELSE IF k \notin DOMAIN foo THEN None
                ELSE IF k = "Volume" /\ "Turnover" \in DOMAIN foo
                        /\ IsFloat(foo["Turnover"]) THEN None
                ELSE foo[k]

C12_CanonicalRecordComplete ==
    Finalized =>
        \A i \in 1 .. Len(output_data) :
            \A k \in Range(out_fieldnames) :
                /\ k \in DOMAIN output_data[i]
                /\ output_data[i][k] # None
                /\ SourceText(i, k) \in {"", "-"} =>
                      \/ output_data[i][k] \in {"0", "0.00"}
                      \/ /\ k \in {"Open", "High", "Low"}
                         /\ output_data[i][k] = output_data[i]["Close"]

(***************************************************************************)
(* C13: the sentinels of _read_input_as_list do not reach the output: no   *)
(* record that write_csv gets has the key "Skip" (restkey), and no field   *)
(* of such a record holds "Skip" (restval) or the list of surplus cells.   *)
(***************************************************************************)
C13_SentinelsDiscarded ==
    Finalized =>
        \A i \in 1 .. Len(output_data) :
            /\ Skip \notin DOMAIN output_data[i]
            /\ \A k \in DOMAIN output_data[i] :
                  output_data[i][k] \notin {Skip, RestList}

(***************************************************************************)
(* C14: the driver takes the dates start_date .. end_date in ascending     *)
(* order, each once: at a date it downloads and then normalizes and writes *)
(* before it moves on, a Saturday or Sunday gets neither step when         *)
(* ignore_weekend holds, and when the driver is left every other date of   *)
(* the range, and no date outside it, got both steps (none at all for      *)
(* start_date > end_date, start_date alone when they are equal).           *)
(***************************************************************************)
\* The dates from start_date up to d that the weekend rule does not skip.
DueUpTo(d) == {x \in Dates : start_date <= x /\ x <= d /\ ~Skipped(x)}

C14_DriverVisitsRange ==
    /\ processed \subseteq downloaded
    /\ pc \in {"loop", "download"} =>
          /\ downloaded = DueUpTo(current_date - 1)
          /\ processed = DueUpTo(current_date - 1)
    /\ pc \in {"parse", "parse_vix", "finalize", "write"} =>
          /\ current_date <= end_date
          /\ ~Skipped(current_date)
          /\ downloaded = DueUpTo(current_date)
          /\ processed = DueUpTo(current_date - 1)
    /\ pc \in {"done", "raised"} =>
          /\ downloaded = DueUpTo(end_date)
          /\ processed = DueUpTo(end_date)

(***************************************************************************)
(* C15: what _manipulate_nse_equities emits are the rows of the bhavcopy   *)
(* whose Series is "EQ" or "BE", all of them and no other row, in the      *)
(* order of the bhavcopy.                                                  *)
(***************************************************************************)
\* The rows of the input list the emitted records come from.
EmittedRows == {origin[i].row : i \in 1 .. Len(output_data)}
\* The emitted records come from rows of the bhavcopy, in its order.
InSourceOrder ==
    /\ \A i \in 1 .. Len(output_data) : origin[i].file = "bhav"
    /\ \A i, j \in 1 .. Len(output_data) :
          i < j => origin[i].row < origin[j].row

C15_EquitiesSeriesFilter ==
    (category = "Equities" /\ (Manipulated \/ Finalized)) =>
        /\ InSourceOrder
        /\ EmittedRows = {j \in 1 .. Len(InputList("bhav")) :
                             InputList("bhav")[j]["Series"] \in {"EQ", "BE"}}

\* A row of Series N1 and then one of Series BE: the second alone is handed
\* to write_csv.
C15_Witness ==
    /\ category = "Equities"
    /\ pc = "write"
    /\ Len(InputList("bhav")) = 2
    /\ InputList("bhav")[1]["Series"] = "N1"
    /\ InputList("bhav")[2]["Series"] = "BE"
    /\ Len(output_data) = 1
    /\ origin[1].row = 2

(***************************************************************************)
(* C16: what _manipulate_nse_futures emits are the rows whose Instrument   *)
(* is FUTIDX, FUTIVX or FUTSTK, all of them and no other row: an option    *)
(* and every other kind of row give no record.                             *)
(***************************************************************************)
C16_FuturesInstrumentFilter ==
    (category = "Futures" /\ (Manipulated \/ Finalized)) =>
        /\ InSourceOrder
        /\ EmittedRows =
              {j \in 1 .. Len(InputList("bhav")) :
                  InputList("bhav")[j]["Instrument"]
                      \in {"FUTIDX", "FUTIVX", "FUTSTK"}}

\* An option and then a future of Instrument FUTIVX: the second alone is
\* handed to write_csv.
C16_Witness ==
    /\ category = "Futures"
    /\ pc = "write"
    /\ Len(InputList("bhav")) = 2
    /\ InputList("bhav")[1]["Instrument"] = "OPTIDX"
    /\ InputList("bhav")[2]["Instrument"] = "FUTIVX"
    /\ Len(output_data) = 1
    /\ origin[1].row = 2

(***************************************************************************)
(* C17: every record _manipulate_nse_futures emits has the source          *)
(* Settlement_Price as Close and the source Contracts as Volume, whatever  *)
(* the source Close is; and the zero-OHLC-fill takes the settlement price  *)
(* for Close: Open, High and Low that are all "0" become the settlement    *)
(* price when that is not "0", and stay as they are when it is "0".        *)
(***************************************************************************)
C17_FuturesCloseAndVolume ==
    (category = "Futures" /\ Manipulated) =>
        \A i \in 1 .. Len(output_data) :
            LET foo == Src(i)
                record == output_data[i]
                zero_ohl == /\ foo["Open"] = "0"
                            /\ foo["High"] = "0"
                            /\ foo["Low"] = "0"
            IN  /\ record["Close"] = foo["Settlement_Price"]
                /\ record["Volume"] = foo["Contracts"]
                /\ \A k \in {"Open", "High", "Low"} :
                      record[k] = IF zero_ohl /\ foo["Settlement_Price"] # "0"
                                  THEN foo["Settlement_Price"]
                                  ELSE foo[k]

\* A future with Open, High, Low and Close "0" and Settlement_Price "7" is
\* emitted with all four "7".
C17_Witness ==
    /\ category = "Futures"
    /\ pc = "finalize"
    /\ \E i \in 1 .. Len(output_data) :
          /\ Src(i)["Close"] = "0"
          /\ Src(i)["Open"] = "0"
          /\ Src(i)["Settlement_Price"] = "7"
          /\ output_data[i]["Close"] = "7"
          /\ output_data[i]["Open"] = "7"

(***************************************************************************)
(* C18: every emitted Equities record of Series "BE" has its own traded    *)
(* Volume as OI, with or without a delivery file and whatever the delivery *)
(* file holds for its (Symbol, Series).                                    *)
(***************************************************************************)
C18_BeOiIsVolume ==
    (category = "Equities" /\ (Manipulated \/ Finalized)) =>
        \A i \in 1 .. Len(output_data) :
            Src(i)["Series"] = "BE" =>
                /\ output_data[i]["OI"] = output_data[i]["Volume"]
                /\ Manipulated => output_data[i]["OI"] = Src(i)["Volume"]

\* A record of (FOO, BE) with Volume "1000" is handed to write_csv with OI
\* "1000" while the delivery file has OI "777" for (FOO, BE).
C18_Witness ==
    /\ category = "Equities"
    /\ pc = "write"
    /\ dl.sec.exists
    /\ \E j \in DOMAIN dl.sec.lines : dl.sec.lines[j] = DeliveryBe
    /\ \E i \in 1 .. Len(output_data) :
          /\ Src(i)["Series"] = "BE"
          /\ Src(i)["Symbol"] = "FOO"
          /\ output_data[i]["OI"] = "1000"

(***************************************************************************)
(* C19: every record _manipulate_nse_indices emits has OI "0", and one     *)
(* whose source row has no Symbol field (a row of the volatility-index     *)
(* file) has Symbol "INDIAVIX" and Volume "0"; so it is still when         *)
(* write_csv gets the records.                                             *)
(***************************************************************************)
Holds(record, key, value) == key \in DOMAIN record /\ record[key] = value

C19_IndicesOiAndVix ==
    (category = "Indices" /\ (Manipulated \/ Finalized)) =>
        \A i \in 1 .. Len(output_data) :
            /\ Holds(output_data[i], "OI", "0")
            /\ "Symbol" \notin DOMAIN Src(i) =>
                  /\ Holds(output_data[i], "Symbol", "INDIAVIX")
                  /\ Holds(output_data[i], "Volume", "0")

\* A row of the volatility-index file, emitted by the normalizer after a row
\* of the index file.
C19_Witness ==
    /\ category = "Indices"
    /\ pc = "finalize"
    /\ Len(output_data) = 2
    /\ origin[1].file = "bhav"
    /\ origin[2].file = "sec"
    /\ "Symbol" \notin DOMAIN Src(2)
    /\ output_data[2]["Symbol"] = "INDIAVIX"
    /\ output_data[2]["Volume"] = "0"
    /\ output_data[1]["OI"] = "0"

(***************************************************************************)
(* C20: the normalizers and the later _pop_unnecessary_keys and            *)
(* _format_output_data leave the raw records alone: no record of           *)
(* output_data is the same object as a raw record or as another record of  *)
(* output_data, and every raw record of the lists read has the keys and    *)
(* values _read_input_as_list gave it.                                     *)
(***************************************************************************)
\* The records of output_data that are the raw record at row of file itself.
SameObjects(file, row) ==
    {i \in 1 .. Len(output_data) :
        /\ origin[i].same_object
        /\ origin[i].file = file
        /\ origin[i].row = row}

\* The raw record at row of file as it is now: what was done to a record of
\* output_data that is the same object was done to it.
RawRecord(file, row) ==
    IF SameObjects(file, row) = {} THEN InputList(file)[row]
    ELSE output_data[CHOOSE i \in SameObjects(file, row) : TRUE]

TrimmedClose(i) ==
    strip(IF category = "Futures" THEN Src(i)["Settlement_Price"]
          ELSE Src(i)["Close"])

C21_TrimmedBeforeRules ==
    (Manipulated \/ Finalized) =>
        \A i \in 1 .. Len(output_data) :
            /\ (/\ TrimmedClose(i) # "0"
                /\ \A k \in {"Open", "High", "Low"} : strip(Src(i)[k]) = "0")
               => \A k \in {"Open", "High", "Low"} :
                     output_data[i][k] = output_data[i]["Close"]
            /\ category = "Indices" =>
                  \A k \in {"Open", "High", "Low", "Close"} :
                      strip(Src(i)[k]) \in {"-", ""} =>
                          output_data[i][k] \in {"0", "0.00"}

(***************************************************************************)
(* C22: write_csv with n >= 1 records writes the header line and then n    *)
(* lines, the i-th holding Symbol, Date, Open, High, Low, Close, Volume    *)
(* and OI of the i-th record in this order, under the header's labels; in  *)
(* Indices the records of the index file come before those of the          *)
(* volatility-index file.  It raises nothing.                              *)
(***************************************************************************)
\* write_csv has returned for the date, and it had records to write.
Written ==
    /\ pc \in {"loop", "done"}
    /\ start_date \in processed
    /\ Len(output_data) >= 1

C22_HeaderAndRecordLines ==
    /\ err.at # "write"
    /\ Written =>
          LET file == out_fs[start_date]
          IN  /\ file.exists
              /\ Len(file.lines) = Len(output_data) + 1
              /\ file.lines[1] = <<"Symbol", "Date", "Open", "High", "Low",
                                   "Close", "Volume", "OI">>
              /\ \A i \in 1 .. Len(output_data) :
                    file.lines[i + 1] =
                        <<output_data[i]["Symbol"], output_data[i]["Date"],
                          output_data[i]["Open"], output_data[i]["High"],
                          output_data[i]["Low"], output_data[i]["Close"],
                          output_data[i]["Volume"], output_data[i]["OI"]>>
              /\ \A i, j \in 1 .. Len(output_data) :
                    (origin[i].file = "bhav" /\ origin[j].file = "sec")
                        => i < j

\* Indices before VixCutoff: a record of the index file and one of the
\* volatility-index file are written, in this order, under the header.
C22_Witness ==
    /\ Written
    /\ category = "Indices"
    /\ Len(output_data) = 2
    /\ origin[1].file = "bhav"
    /\ origin[2].file = "sec"
    /\ Len(out_fs[start_date].lines) = 3
    /\ out_fs[start_date].lines[2][1] = "NIFTY50"
    /\ out_fs[start_date].lines[3][1] = "INDIAVIX"

(***************************************************************************)
(* C23: in _manipulate_nse_futures pos stays inside future_suffix for      *)
(* every input: no IndexError leaves the normalizer, and a bhavcopy of     *)
(* futures rows alone gives a record for every row, however many futures   *)
(* of one Symbol follow one another.                                       *)
(***************************************************************************)
C23_SuffixIndexInRange ==
    category = "Futures" =>
        /\ err.exc # "IndexError"
        /\ (/\ pc \in {"finalize", "write"}
            /\ dl.bhav.exists
            /\ \A j \in 1 .. Len(InputList("bhav")) :
                  InputList("bhav")[j]["Instrument"] \in futures_instruments)
           => Len(output_data) = Len(InputList("bhav"))


(***************************************************************************)
(* C24: _manipulate_nse_equities never consults delv_oi while it is None:  *)
(* with no delivery file, with a delivery file that holds no rows and with *)
(* one that holds rows, no AttributeError leaves the function, and every   *)
(* bhavcopy row of Series EQ that the loop reaches gets a record with an   *)
(* OI.                                                                     *)
(***************************************************************************)
C24_DeliveryIndexBuilt ==
    category = "Equities" =>
        /\ err.exc # "AttributeError"
        /\ (Manipulated \/ Finalized) =>
              /\ \A j \in 1 .. Len(InputList("bhav")) :
                    InputList("bhav")[j]["Series"] = "EQ" =>
                        \E i \in 1 .. Len(output_data) : origin[i].row = j
              /\ \A i \in 1 .. Len(output_data) :
                    "OI" \in DOMAIN output_data[i]

(***************************************************************************)
(* C25: every record that _finalize_output hands to write_csv, in Indices  *)
(* (index file and volatility-index file), Equities and Futures, has the   *)
(* keys Symbol, Date, Open, High, Low, Close, Volume and OI and no other:  *)
(* the other source columns and the reader's overflow key are gone, and    *)
(* the writer raises for no key.                                           *)
(***************************************************************************)
C25_OutputKeySet ==
    /\ ~(err.at = "write" /\ err.exc = "ValueError")
    /\ pc = "write" =>
          \A i \in 1 .. Len(output_data) :
              /\ DOMAIN output_data[i] =
                     {"Symbol", "Date", "Open", "High", "Low", "Close",
                      "Volume", "OI"}
              /\ ~HasExtraKey(out_fieldnames, output_data[i])

\* A record of the volatility-index file and a record of a row with cells
\* beyond the fieldnames are handed to write_csv.
C25_Witness ==
    /\ pc = "write"
    /\ \E i \in 1 .. Len(output_data) : origin[i].file = "sec"
    /\ \E i \in 1 .. Len(output_data) :
          /\ "Skip" \in DOMAIN Src(i)
          /\ "Change_pct" \in DOMAIN Src(i)

=============================================================================
